---------------------------- MODULE Spec2Model ----------------------------
(***************************************************************************)
(* A model of the goldmark-mmd metadata extension (src/meta.go, lines      *)
(* 1-298): the token matcher (isOpen, isClose), the block parser           *)
(* (metaParser.Open / Continue / Close / loadMetadata), the accessors      *)
(* (Get, TryGet) and the AST transformer (astTransformer.Transform),       *)
(* driven by the host's open / continue / close protocol.                  *)
(*                                                                         *)
(* Bytes are one-character strings, a line or a source is a sequence of    *)
(* bytes.  Offsets are 0-based as in the Go code; source[i] is src[i+1].   *)
(***************************************************************************)
EXTENDS Integers, Sequences, FiniteSets, TLC

(***************************************************************************)
(* Constants of src/meta.go, lines 53-58.                                  *)
(***************************************************************************)
openToken == <<"<", "!", "-", "-">>
closeToken == <<"-", "-", ">">>
formatYaml == ":"
formatToml == "#"
formatJsonOpen == "{"
formatJsonClose == "}"

\* The zero value of metaParser.format before any Open has set it.
ZeroByte == "NUL"
\* What text.Reader.Peek returns at the end of the source.
EOF == "EOF"
\* A nil map, a nil error, a missing context value.
Nil == "nil"

NL == <<"\n">>
SP == <<" ">>

(***************************************************************************)
(* util.IsSpace, util.TrimLeftSpace, util.TrimRightSpace, util.IsBlank as  *)
(* isOpen, Continue and the host use them.                                 *)
(***************************************************************************)
IsSpace(c) == c \in {" ", "\n", "\t", "\r"}

RECURSIVE TrimLeftSpace(_)
TrimLeftSpace(line) ==
    IF line # <<>> /\ IsSpace(Head(line)) THEN TrimLeftSpace(Tail(line)) ELSE line

RECURSIVE TrimRightSpace(_)
TrimRightSpace(line) ==
    IF line # <<>> /\ IsSpace(line[Len(line)])
    THEN TrimRightSpace(SubSeq(line, 1, Len(line) - 1))
    ELSE line

IsBlank(line) == \A i \in 1..Len(line) : IsSpace(line[i])

(***************************************************************************)
(* isOpen: the loop over i of lines 73-87 on the trimmed line; the test of *)
(* line 74 compares only line[i] with openToken[0], and line 75 reads the  *)
(* byte len(openToken) places further on.                                  *)
(***************************************************************************)
RECURSIVE isOpenFrom(_, _)
isOpenFrom(line, i) ==
    IF i >= Len(line) THEN FALSE
    ELSE IF Len(line) - i >= Len(openToken) + 1 /\ line[i + 1] = openToken[1]
              /\ line[i + Len(openToken) + 1] \in {formatYaml, formatToml, formatJsonOpen}
         THEN TRUE
         ELSE isOpenFrom(line, i + 1)

isOpen(line) == isOpenFrom(TrimRightSpace(TrimLeftSpace(line)), 0)

(***************************************************************************)
(* isClose: the loop of lines 96-107.  The i++ of line 98 stays in effect  *)
(* when the comparison of line 99 fails, so the loop's own i++ then skips  *)
(* the byte after the signal.                                              *)
(***************************************************************************)
RECURSIVE isCloseFrom(_, _, _)
isCloseFrom(line, signal, i) ==
    IF i >= Len(line) THEN -1
    ELSE IF line[i + 1] = signal /\ Len(line) - i >= Len(closeToken) + 1
         THEN IF SubSeq(line, i + 2, i + 1 + Len(closeToken)) = closeToken
              THEN (IF signal = formatJsonClose THEN i + 1 ELSE i)
              ELSE isCloseFrom(line, signal, i + 2)
         ELSE isCloseFrom(line, signal, i + 1)

isClose(line, signal) == isCloseFrom(line, signal, 0)

(***************************************************************************)
(* The indexes of the line the two loops read, in the order of the code's  *)
(* tests: isOpen reads line[i] only after the length test of line 74, and  *)
(* then line[i+len(openToken)]; isClose reads line[i] and, after the       *)
(* length test of line 97, the slice line[i+1 : i+1+len(closeToken)].      *)
(* At is the byte at a 0-based index; outside the line, where the Go       *)
(* program stops with an index-out-of-range panic, it is ZeroByte.         *)
(***************************************************************************)
At(line, j) == IF j >= 0 /\ j < Len(line) THEN line[j + 1] ELSE ZeroByte

RECURSIVE isOpenReadsFrom(_, _)
isOpenReadsFrom(line, i) ==
    IF i >= Len(line) THEN {}
    ELSE IF Len(line) - i >= Len(openToken) + 1
         THEN {i} \cup
              (IF At(line, i) = openToken[1]
               THEN {i + Len(openToken)} \cup
                    (IF At(line, i + Len(openToken)) \in {formatYaml, formatToml, formatJsonOpen}
                     THEN {}
                     ELSE isOpenReadsFrom(line, i + 1))
               ELSE isOpenReadsFrom(line, i + 1))
         ELSE isOpenReadsFrom(line, i + 1)

isOpenReads(line) == isOpenReadsFrom(TrimRightSpace(TrimLeftSpace(line)), 0)

\* isCloseReadsFrom with the length test of line 97 one byte short.
isCloseReadsShortTest(line, signal, i) ==
    LET RECURSIVE go(_)
        go(j) ==
            IF j >= Len(line) THEN {}
            ELSE {j} \cup
                 (IF At(line, j) = signal /\ Len(line) - j >= Len(closeToken)
                  THEN (j + 1)..(j + Len(closeToken)) \cup
                       (IF \A m \in 1..Len(closeToken) : At(line, j + m) = closeToken[m]
                        THEN {}
                        ELSE go(j + 2))
                  ELSE go(j + 1))
    IN  go(i)

RECURSIVE isCloseReadsFrom(_, _, _)
isCloseReadsFrom(line, signal, i) ==
    IF i >= Len(line) THEN {}
    ELSE {i} \cup
         (IF At(line, i) = signal /\ Len(line) - i >= Len(closeToken) + 1
          THEN (i + 1)..(i + Len(closeToken)) \cup
               (IF \A m \in 1..Len(closeToken) : At(line, i + m) = closeToken[m]
                THEN {}
                ELSE isCloseReadsFrom(line, signal, i + 2))
          ELSE isCloseReadsFrom(line, signal, i + 1))

isCloseReads(line, signal) == isCloseReadsFrom(line, signal, 0)

\* metaParser.Trigger: the byte that makes the host offer a line to Open.
Trigger == openToken[1]

(***************************************************************************)
(* The host's text.Reader, as Open and Continue use it: a reader is        *)
(* [Start, Stop, line, peeked], the current segment of the source, the     *)
(* line number and whether a peeked line is cached.                        *)
(***************************************************************************)
LineEnd(s, from) ==
    IF \E i \in (from + 1)..Len(s) : s[i] = "\n"
    THEN CHOOSE i \in (from + 1)..Len(s) :
            s[i] = "\n" /\ \A j \in (from + 1)..(i - 1) : s[j] # "\n"
    ELSE Len(s)

AdvanceLine(s, r) ==
    [Start |-> r.Stop, Stop |-> LineEnd(s, r.Stop), line |-> r.line + 1, peeked |-> FALSE]

NewReader(s) == AdvanceLine(s, [Start |-> 0, Stop |-> 0, line |-> -1, peeked |-> FALSE])

\* nil (no line left) is the empty sequence: a peeked line is never empty.
PeekLine(s, r) == IF r.Start < Len(s) THEN SubSeq(s, r.Start + 1, r.Stop) ELSE <<>>

Peeked(s, r) == IF r.Start < Len(s) THEN [r EXCEPT !.peeked = TRUE] ELSE r

Peek(s, r) == IF r.Start < Len(s) THEN s[r.Start + 1] ELSE EOF

\* Position that reports line 0 for every line.
PositionAlwaysZero(r) == 0

Position(r) == r.line

RECURSIVE AdvanceSlow(_, _, _)
AdvanceSlow(s, r, n) ==
    IF n > 0 /\ r.Start < Len(s)
    THEN IF s[r.Start + 1] = "\n"
         THEN AdvanceSlow(s, AdvanceLine(s, r), n - 1)
         ELSE AdvanceSlow(s, [r EXCEPT !.Start = @ + 1], n - 1)
    ELSE r

Advance(s, r, n) ==
    IF r.peeked /\ n < r.Stop - r.Start
    THEN [r EXCEPT !.Start = @ + n, !.peeked = FALSE]
    ELSE AdvanceSlow(s, [r EXCEPT !.peeked = FALSE], n)

\* text.Segment.Value
Value(s, seg) == SubSeq(s, seg.Start + 1, seg.Stop)


(***************************************************************************)
(* Maps.  A Go map is [nil, kv]: whether it is nil, and its key/value      *)
(* pairs as a function.  An error is a string, Nil for none.               *)
(***************************************************************************)
EmptyKV == [k \in {} |-> ""]
NilMap == [nil |-> TRUE, kv |-> EmptyKV]
MakeMap(f) == [nil |-> FALSE, kv |-> f]

\* What a decoder can leave in the destination map.
FullKV == [k \in {"Title", "Tags"} |-> IF k = "Title" THEN "mmd" ELSE "goldmark"]
PartialKV == [k \in {"Title"} |-> "mmd"]

(***************************************************************************)
(* dati.LoadData is an external decoder: bytes in, mapping or error out.   *)
(* The model does not interpret the payload; dec chooses what the decoder  *)
(* does with it: "ok" (a mapping), "empty" (no error and no key, as for    *)
(* an empty payload), "fail" (an error, destination untouched), "partial"  *)
(* (an error after part of the destination was filled in).                 *)
(***************************************************************************)
DecoderBehaviours == {"ok", "empty", "fail", "partial"}

LoadData(dataFormat, buf, dec) ==
    CASE dec = "ok" -> [Map |-> MakeMap(FullKV), Error |-> Nil]
      [] dec = "empty" -> [Map |-> NilMap, Error |-> Nil]
      [] dec = "fail" -> [Map |-> NilMap, Error |-> "decode error"]
      [] OTHER -> [Map |-> MakeMap(PartialKV), Error |-> "decode error"]

\* DataFormat with the brace case on the opening brace, not the closing one.
DataFormatOnOpenBrace(fmt) ==
    CASE fmt = formatYaml -> "YAML"
      [] fmt = formatToml -> "TOML"
      [] fmt = formatJsonOpen -> "JSON"
      [] OTHER -> "unsupported"

\* The switch of loadMetadata, lines 153-162.
DataFormat(fmt) ==
    CASE fmt = formatYaml -> "YAML"
      [] fmt = formatToml -> "TOML"
      [] fmt = formatJsonClose -> "JSON"
      [] OTHER -> "unsupported"

loadMetadata(fmt, buf, dec) ==
    IF DataFormat(fmt) = "unsupported"
    THEN [Map |-> NilMap, Error |-> "ErrUnsupportedData"]
    ELSE LoadData(DataFormat(fmt), buf, dec)

(***************************************************************************)
(* The context value under contextKey: none, or the *data Close stored.    *)
(***************************************************************************)
NoEntry == [present |-> FALSE, Map |-> NilMap, Error |-> Nil, Node |-> 0]

Get(v) == IF ~v.present THEN NilMap ELSE v.Map

\* TryGet without the test of d.Error.
TryGetUnchecked(v) ==
    IF ~v.present THEN [map |-> NilMap, err |-> Nil] ELSE [map |-> v.Map, err |-> v.Error]

TryGet(v) ==
    IF ~v.present THEN [map |-> NilMap, err |-> Nil]
    ELSE IF v.Error # Nil THEN [map |-> NilMap, err |-> v.Error]
    ELSE [map |-> v.Map, err |-> Nil]

(***************************************************************************)
(* Tree nodes.  A placeholder (gast.TextBlock) is [Lines, Children,        *)
(* Parent]: its line segments, its child nodes, and whether it is a child  *)
(* of its document ("doc"), detached ("none") or not allocated ("free").   *)
(***************************************************************************)
NodeIds == 1..4
FreeNode == [Lines |-> <<>>, Children |-> <<>>, Parent |-> "free"]
NewTextBlock == [Lines |-> <<>>, Children |-> <<>>, Parent |-> "none"]

RECURSIVE Concat(_, _)
Concat(s, segs) ==
    IF segs = <<>> THEN <<>> ELSE Value(s, Head(segs)) \o Concat(s, Tail(segs))

(***************************************************************************)
(* The callbacks of metaParser, as functions of the world w they act on:   *)
(* w = [rd, format, nodes, entry, calls, seen] is the reader, the parser's *)
(* format byte, the nodes, the context value, the log of loadMetadata      *)
(* calls and the set of format bytes the conversion's callbacks read.      *)
(***************************************************************************)
\* Continue that takes a whitespace-only line for the close marker.
ContinueClosesOnBlank(w, s, id) ==
    LET line == PeekLine(s, w.rd)
        r0 == Peeked(s, w.rd)
        segment == [Start |-> w.rd.Start, Stop |-> w.rd.Stop]
        n == isClose(line, w.format)
        w0 == [w EXCEPT !.seen = @ \cup {w.format}]
    IN  IF ~(n = -1 /\ ~IsBlank(line))
        THEN [state |-> "Close",
              w |-> [w0 EXCEPT
                       !.nodes[id].Lines = Append(@, [segment EXCEPT !.Stop = @ - Len(line)]),
                       !.rd = Advance(s, r0, Len(closeToken) + 1)]]
        ELSE [state |-> "Continue",
              w |-> [w0 EXCEPT !.nodes[id].Lines = Append(@, segment), !.rd = r0]]

\* Continue that appends the whole line when it finds the close marker.
ContinueKeepsMarker(w, s, id) ==
    LET line == PeekLine(s, w.rd)
        r0 == Peeked(s, w.rd)
        segment == [Start |-> w.rd.Start, Stop |-> w.rd.Stop]
        n == isClose(line, w.format)
        w0 == [w EXCEPT !.seen = @ \cup {w.format}]
    IN  IF n # -1 /\ ~IsBlank(line)
        THEN [state |-> "Close",
              w |-> [w0 EXCEPT
                       !.nodes[id].Lines = Append(@, segment),
                       !.rd = Advance(s, r0, n + Len(closeToken) + 1)]]
        ELSE [state |-> "Continue",
              w |-> [w0 EXCEPT !.nodes[id].Lines = Append(@, segment), !.rd = r0]]

Continue(w, s, id) ==
    LET line == PeekLine(s, w.rd)
        r0 == Peeked(s, w.rd)
        segment == [Start |-> w.rd.Start, Stop |-> w.rd.Stop]
        n == isClose(line, w.format)
        w0 == [w EXCEPT !.seen = @ \cup {w.format}]
    IN  IF n # -1 /\ ~IsBlank(line)
        THEN [state |-> "Close",
              w |-> [w0 EXCEPT
                       !.nodes[id].Lines =
                           Append(@, [segment EXCEPT !.Stop = @ - (Len(line) - n)]),
                       !.rd = Advance(s, r0, n + Len(closeToken) + 1)]]
        ELSE [state |-> "Continue",
              w |-> [w0 EXCEPT !.nodes[id].Lines = Append(@, segment), !.rd = r0]]

\* Close without the test of d.Error: the placeholder is always removed.
CloseAlwaysRemoves(w, s, id, dec) ==
    LET buf == Concat(s, w.nodes[id].Lines)
        md == loadMetadata(w.format, buf, dec)
        d == [present |-> TRUE, Map |-> md.Map, Error |-> md.Error, Node |-> id]
    IN  [w EXCEPT
           !.entry = d,
           !.calls = Append(@, [format |-> w.format, data |-> DataFormat(w.format),
                                buf |-> buf, out |-> md]),
           !.seen = @ \cup {w.format},
           !.nodes[id].Parent = "none"]

Close(w, s, id, dec) ==
    LET buf == Concat(s, w.nodes[id].Lines)
        md == loadMetadata(w.format, buf, dec)
        d == [present |-> TRUE, Map |-> md.Map, Error |-> md.Error, Node |-> id]
    IN  [w EXCEPT
           !.entry = d,
           !.calls = Append(@, [format |-> w.format, data |-> DataFormat(w.format),
                                buf |-> buf, out |-> md]),
           !.seen = @ \cup {w.format},
           !.nodes[id].Parent = IF d.Error = Nil THEN "none" ELSE @]

\* Open without the test of the line number.
OpenOnAnyLine(w, s, id, dec) ==
    IF ~isOpen(PeekLine(s, w.rd)) THEN [node |-> 0, w |-> [w EXCEPT !.rd = Peeked(s, @)]]
    ELSE LET r1 == Advance(s, Peeked(s, w.rd), Len(openToken))
             b == Peek(s, r1)
             w1 == [w EXCEPT
                      !.format = IF b = formatJsonOpen THEN formatJsonClose ELSE b,
                      !.rd = IF b = formatJsonOpen THEN r1 ELSE Advance(s, r1, 1),
                      !.nodes[id] = NewTextBlock]
             c == Continue(w1, s, id)
         IN  IF c.state # "Close" THEN [node |-> id, w |-> c.w]
             ELSE [node |-> 0,
                   w |-> Close([c.w EXCEPT !.nodes[id].Parent = "doc"], s, id, dec)]

\* Open that returns the node also when it has closed the block itself.
OpenReturnsClosedNode(w, s, id, dec) ==
    IF Position(w.rd) # 0 THEN [node |-> 0, w |-> w]
    ELSE IF ~isOpen(PeekLine(s, w.rd)) THEN [node |-> 0, w |-> [w EXCEPT !.rd = Peeked(s, @)]]
    ELSE LET r1 == Advance(s, Peeked(s, w.rd), Len(openToken))
             b == Peek(s, r1)
             w1 == [w EXCEPT
                      !.format = IF b = formatJsonOpen THEN formatJsonClose ELSE b,
                      !.rd = IF b = formatJsonOpen THEN r1 ELSE Advance(s, r1, 1),
                      !.nodes[id] = NewTextBlock]
             c == Continue(w1, s, id)
         IN  IF c.state # "Close" THEN [node |-> id, w |-> c.w]
             ELSE [node |-> id,
                   w |-> Close([c.w EXCEPT !.nodes[id].Parent = "doc"], s, id, dec)]

Open(w, s, id, dec) ==
    IF Position(w.rd) # 0 THEN [node |-> 0, w |-> w]
    ELSE IF ~isOpen(PeekLine(s, w.rd)) THEN [node |-> 0, w |-> [w EXCEPT !.rd = Peeked(s, @)]]
    ELSE LET r1 == Advance(s, Peeked(s, w.rd), Len(openToken))
             b == Peek(s, r1)
             w1 == [w EXCEPT
                      !.format = IF b = formatJsonOpen THEN formatJsonClose ELSE b,
                      !.rd = IF b = formatJsonOpen THEN r1 ELSE Advance(s, r1, 1),
                      !.nodes[id] = NewTextBlock]
             c == Continue(w1, s, id)
         IN  IF c.state # "Close" THEN [node |-> id, w |-> c.w]
             ELSE [node |-> 0,
                   w |-> Close([c.w EXCEPT !.nodes[id].Parent = "doc"], s, id, dec)]


(***************************************************************************)
(* Documents.  A document is up to MaxLines lines of LineMenu, each ended  *)
(* by a newline; one of up to MaxBareLines lines also occurs without the   *)
(* final newline.                                                          *)
(***************************************************************************)
MaxLines == 3
MaxBareLines == 2

LineMenu ==
    { openToken \o <<":">>,                                  \* <!--:
      <<":">> \o closeToken,                                 \* :-->
      <<"a">>,
      SP,
      openToken \o <<"{", "a", "}">> \o closeToken,          \* <!--{a}-->
      openToken \o <<"#", "a", "#">> \o closeToken \o <<"b">>,   \* <!--#a#-->b
      SP \o openToken \o <<":">> }                           \*  <!--:

RECURSIVE Join(_)
Join(ls) == IF ls = <<>> THEN <<>> ELSE Head(ls) \o NL \o Join(Tail(ls))

Chop(s) == SubSeq(s, 1, Len(s) - 1)

LineSeqs(max) == UNION {[1..n -> LineMenu] : n \in 1..max}

Docs == {Join(ls) : ls \in LineSeqs(MaxLines)} \cup {Chop(Join(ls)) : ls \in LineSeqs(MaxBareLines)}

(***************************************************************************)
(* State.  Slots are the conversions that can be in progress; each uses    *)
(* the context, the reader and the document of its own, and all use the    *)
(* one parser NewParser returns (defaultParser), whose field is format.    *)
(***************************************************************************)
Slots == {1, 2}

VARIABLES
    format,             \* defaultParser.format
    StoresInDocument,   \* transformerConfig.StoresInDocument
    src,                \* src[k]: the source being converted
    rd,                 \* rd[k]: its reader
    pc,                 \* pc[k]: where the host is: idle, blocks, accum, parsed, done
    blk,                \* blk[k]: the placeholder Open made in this conversion, or 0
    nodes,              \* the nodes
    ctx,                \* ctx[k]: the value under contextKey in the context
    docMeta,            \* docMeta[k]: the document's metadata (ast.Document.Meta)
    calls,              \* calls[k]: the loadMetadata calls of this conversion
    seen,               \* seen[k]: the format bytes its Continue and Close read
    uses,               \* uses[k]: the conversions that used the context so far
    probe               \* a line and a signal the token matcher is applied to

vars == <<format, StoresInDocument, src, rd, pc, blk, nodes, ctx, docMeta, calls, seen, uses, probe>>

\* The conversions that may share one context in a row.
MaxUses == 3

World(k) ==
    [rd |-> rd[k], format |-> format, nodes |-> nodes, entry |-> ctx[k],
     calls |-> calls[k], seen |-> seen[k]]

\* All of a world but the reader is written back by every step.
Store(k, w, r) ==
    /\ format' = w.format
    /\ ctx' = [ctx EXCEPT ![k] = w.entry]
    /\ calls' = [calls EXCEPT ![k] = w.calls]
    /\ seen' = [seen EXCEPT ![k] = w.seen]
    /\ rd' = [rd EXCEPT ![k] = r]

NewId == CHOOSE id \in NodeIds : nodes[id].Parent = "free" /\ \A j \in 1..(id - 1) : nodes[j].Parent # "free"

RECURSIVE SkipBlankLines(_, _)
SkipBlankLines(s, r) ==
    IF PeekLine(s, r) = <<>> THEN r
    ELSE IF IsBlank(PeekLine(s, r)) THEN SkipBlankLines(s, AdvanceLine(s, r))
    ELSE Peeked(s, r)

\* The host offers a line to the parser when its first non-space byte is the trigger.
Offered(line) == TrimLeftSpace(line) # <<>> /\ Head(TrimLeftSpace(line)) = Trigger

NoProbe ==
    [line |-> <<>>, signal |-> ZeroByte, applied |-> FALSE, n |-> -1, state |-> "none",
     reads |-> {}, opened |-> FALSE, open |-> FALSE, openReads |-> {}]

Machine ==
    /\ format = ZeroByte
    /\ src = [k \in Slots |-> <<>>]
    /\ rd = [k \in Slots |-> NewReader(<<>>)]
    /\ pc = [k \in Slots |-> "idle"]
    /\ blk = [k \in Slots |-> 0]
    /\ nodes = [id \in NodeIds |-> FreeNode]
    /\ ctx = [k \in Slots |-> NoEntry]
    /\ docMeta = [k \in Slots |-> EmptyKV]
    /\ calls = [k \in Slots |-> <<>>]
    /\ seen = [k \in Slots |-> {}]
    /\ uses = [k \in Slots |-> 0]

\* newTransformer: the option is off unless WithStoresInDocument is given.
Init ==
    /\ Machine
    /\ StoresInDocument \in BOOLEAN
    /\ probe = NoProbe

(***************************************************************************)
(* markdown.Convert(source, w, parser.WithContext(context)) starts: a new  *)
(* reader on the source and a new document.                                *)
(***************************************************************************)
Convert(k, d) ==
    /\ pc[k] = "idle"
    /\ src' = [src EXCEPT ![k] = d]
    /\ rd' = [rd EXCEPT ![k] = NewReader(d)]
    /\ pc' = [pc EXCEPT ![k] = "blocks"]
    /\ uses' = [uses EXCEPT ![k] = @ + 1]
    /\ UNCHANGED <<format, StoresInDocument, blk, nodes, ctx, docMeta, calls, seen, probe>>

(***************************************************************************)
(* Convert has returned and the caller has read the context: the reader    *)
(* and the document go out of scope.  The caller keeps the context for its *)
(* next conversion (keep) or drops it; nodes nothing refers to any more    *)
(* are collected.                                                          *)
(***************************************************************************)
Return(k, keep) ==
    /\ pc[k] = "done"
    /\ keep => uses[k] < MaxUses
    /\ LET kept == IF keep THEN ctx[k] ELSE NoEntry
           live == {kept.Node} \cup {ctx[j].Node : j \in Slots \ {k}}
                               \cup {blk[j] : j \in Slots \ {k}}
       IN  /\ ctx' = [ctx EXCEPT ![k] = kept]
           /\ nodes' = [id \in NodeIds |-> IF id \in live THEN nodes[id] ELSE FreeNode]
    /\ uses' = [uses EXCEPT ![k] = IF keep THEN @ ELSE 0]
    /\ src' = [src EXCEPT ![k] = <<>>]
    /\ rd' = [rd EXCEPT ![k] = NewReader(<<>>)]
    /\ pc' = [pc EXCEPT ![k] = "idle"]
    /\ blk' = [blk EXCEPT ![k] = 0]
    /\ docMeta' = [docMeta EXCEPT ![k] = EmptyKV]
    /\ calls' = [calls EXCEPT ![k] = <<>>]
    /\ seen' = [seen EXCEPT ![k] = {}]
    /\ UNCHANGED <<format, StoresInDocument, probe>>

(***************************************************************************)
(* The host's parseBlocks.  At "blocks" no metadata block is open: blank   *)
(* lines are skipped, and the next line is offered to Open or taken by     *)
(* another block parser.                                                   *)
(***************************************************************************)
ParseBlocksEnd(k) ==
    /\ pc[k] = "blocks"
    /\ PeekLine(src[k], SkipBlankLines(src[k], rd[k])) = <<>>
    /\ rd' = [rd EXCEPT ![k] = SkipBlankLines(src[k], rd[k])]
    /\ pc' = [pc EXCEPT ![k] = "parsed"]
    /\ UNCHANGED <<format, StoresInDocument, src, blk, nodes, ctx, docMeta, calls, seen, uses, probe>>

\* The line is offered to Open.  A node Open returns becomes the open block; when
\* it returns none, the other parsers get what is left of the line, and parsing
\* ends when they open nothing there.
OpenBlocks(k, dec) ==
    /\ pc[k] = "blocks"
    /\ LET s == src[k]
           r == SkipBlankLines(s, rd[k])
           o == Open([World(k) EXCEPT !.rd = r], s, NewId, dec)
       IN  /\ PeekLine(s, r) # <<>>
           /\ Offered(PeekLine(s, r))
           /\ blk' = [blk EXCEPT ![k] = IF o.w.nodes[NewId].Parent # "free" THEN NewId ELSE @]
           /\ IF o.node # 0
              THEN /\ nodes' = [o.w.nodes EXCEPT ![o.node].Parent = "doc"]
                   /\ Store(k, o.w, AdvanceLine(s, o.w.rd))
                   /\ pc' = [pc EXCEPT ![k] = "accum"]
              ELSE /\ nodes' = o.w.nodes
                   /\ IF IsBlank(PeekLine(s, o.w.rd))
                      THEN Store(k, o.w, o.w.rd) /\ pc' = [pc EXCEPT ![k] = "parsed"]
                      ELSE Store(k, o.w, AdvanceLine(s, o.w.rd)) /\ pc' = pc
    /\ UNCHANGED <<StoresInDocument, src, docMeta, uses, probe>>

\* The line goes to another block parser without Open being called: it does not
\* start with the trigger, or it is a later line inside another parser's block.
OtherBlocks(k) ==
    /\ pc[k] = "blocks"
    /\ LET s == src[k]
           r == SkipBlankLines(s, rd[k])
       IN  /\ PeekLine(s, r) # <<>>
           /\ ~(Offered(PeekLine(s, r)) /\ Position(r) = 0)
           /\ rd' = [rd EXCEPT ![k] = AdvanceLine(s, r)]
    /\ UNCHANGED <<format, StoresInDocument, src, pc, blk, nodes, ctx, docMeta, calls, seen, uses, probe>>

\* The metadata block is open and there is a line: Continue.  On Close the host
\* offers the rest of the line to the block parsers and then closes the block.
ContinueBlock(k, dec) ==
    /\ pc[k] = "accum"
    /\ PeekLine(src[k], rd[k]) # <<>>
    /\ LET s == src[k]
           c == Continue(World(k), s, blk[k])
           o == IF Offered(PeekLine(s, c.w.rd)) THEN Open(c.w, s, NewId, dec).w ELSE c.w
           w2 == Close(o, s, blk[k], dec)
       IN  IF c.state = "Continue"
           THEN /\ Store(k, c.w, AdvanceLine(s, c.w.rd))
                /\ nodes' = c.w.nodes
                /\ pc' = pc
           ELSE /\ Store(k, w2, AdvanceLine(s, w2.rd))
                /\ nodes' = w2.nodes
                /\ pc' = [pc EXCEPT ![k] = "blocks"]
    /\ UNCHANGED <<StoresInDocument, src, blk, docMeta, uses, probe>>

\* The source ends with the metadata block open: the host closes every open block.
CloseAtEnd(k, dec) ==
    /\ pc[k] = "accum"
    /\ PeekLine(src[k], rd[k]) = <<>>
    /\ LET w2 == Close(World(k), src[k], blk[k], dec)
       IN  /\ Store(k, w2, AdvanceLine(src[k], w2.rd))
           /\ nodes' = w2.nodes
    /\ pc' = [pc EXCEPT ![k] = "parsed"]
    /\ UNCHANGED <<StoresInDocument, src, blk, docMeta, uses, probe>>

(***************************************************************************)
(* Before the transformer runs, another stage of the host may have put     *)
(* metadata of its own into the document.                                  *)
(***************************************************************************)
OtherKV == [k \in {"Title", "Draft"} |-> IF k = "Title" THEN "old" ELSE "yes"]

OtherStage(k) ==
    /\ pc[k] = "parsed"
    /\ docMeta[k] = EmptyKV
    /\ docMeta' = [docMeta EXCEPT ![k] = OtherKV]
    /\ UNCHANGED <<format, StoresInDocument, src, rd, pc, blk, nodes, ctx, calls, seen, uses, probe>>

\* ast.Document.AddMeta for every pair of m.
AddMeta(meta, m) ==
    [key \in DOMAIN meta \cup DOMAIN m |-> IF key \in DOMAIN m THEN m[key] ELSE meta[key]]

ErrorMarker(err) == [code |-> TRUE, text |-> <<"<!-- meta error, ", err, " -->">>]

\* Transform with a marker that does not carry the error.
TransformNodesNoMessage(v, ns) ==
    IF v.present /\ v.Error # Nil
    THEN [ns EXCEPT ![v.Node].Children = Append(@, ErrorMarker(Nil))]
    ELSE ns

\* Transform that replaces the document's metadata by the mapping.
TransformMetaReplaces(v, meta, stores) ==
    IF v.present /\ v.Error = Nil /\ stores THEN v.Map.kv ELSE meta

\* astTransformer.Transform on the context value v: the nodes and the metadata after it.
TransformNodes(v, ns) ==
    IF v.present /\ v.Error # Nil
    THEN [ns EXCEPT ![v.Node].Children = Append(@, ErrorMarker(v.Error))]
    ELSE ns

TransformMeta(v, meta, stores) ==
    IF v.present /\ v.Error = Nil /\ stores THEN AddMeta(meta, v.Map.kv) ELSE meta

Transform(k) ==
    /\ pc[k] = "parsed"
    /\ nodes' = TransformNodes(ctx[k], nodes)
    /\ docMeta' = [docMeta EXCEPT ![k] = TransformMeta(ctx[k], @, StoresInDocument)]
    /\ pc' = [pc EXCEPT ![k] = "done"]
    /\ UNCHANGED <<format, StoresInDocument, src, rd, blk, ctx, calls, seen, uses, probe>>

(***************************************************************************)
(* Spec: conversions one after the other, each with a context of its own.  *)
(***************************************************************************)
Next ==
    \/ \E d \in Docs : Convert(1, d)
    \/ ParseBlocksEnd(1)
    \/ \E dec \in DecoderBehaviours : OpenBlocks(1, dec)
    \/ OtherBlocks(1)
    \/ \E dec \in DecoderBehaviours : ContinueBlock(1, dec)
    \/ \E dec \in DecoderBehaviours : CloseAtEnd(1, dec)
    \/ OtherStage(1)
    \/ Transform(1)
    \/ Return(1, FALSE)

Spec == Init /\ [][Next]_vars

(***************************************************************************)
(* SpecReuse: conversions one after the other, where the caller may keep   *)
(* the context for the next conversion.                                    *)
(***************************************************************************)
ReuseDocs ==
    { Join(<<openToken \o <<":">>, <<"a">>, <<":">> \o closeToken>>),
      Join(<<openToken \o <<"{", "a", "}">> \o closeToken, <<"a">>>>),
      Join(<<openToken \o <<":">>, <<"a">>>>),
      Join(<<<<"a">>, openToken \o <<"{", "a", "}">> \o closeToken>>),
      Join(<<<<"a">>>>) }

NextReuse ==
    \/ \E d \in ReuseDocs : Convert(1, d)
    \/ ParseBlocksEnd(1)
    \/ \E dec \in DecoderBehaviours : OpenBlocks(1, dec)
    \/ OtherBlocks(1)
    \/ \E dec \in DecoderBehaviours : ContinueBlock(1, dec)
    \/ \E dec \in DecoderBehaviours : CloseAtEnd(1, dec)
    \/ OtherStage(1)
    \/ Transform(1)
    \/ \E keep \in BOOLEAN : Return(1, keep)

SpecReuse == Init /\ [][NextReuse]_vars

(***************************************************************************)
(* SpecConc: two conversions of different documents at the same time, each *)
(* with a context of its own, their callbacks interleaved in any order;    *)
(* each slot converts one document.                                        *)
(***************************************************************************)
ConcDocs ==
    { Join(<<openToken \o <<":">>, <<"a">>, <<":">> \o closeToken, <<"b">>>>),
      Join(<<openToken \o <<"{">>, <<"a", "}">> \o closeToken>>),
      Join(<<openToken \o <<"#", "a", "#">> \o closeToken \o <<"b">>>>) }

NextConc ==
    \E k \in Slots :
        \/ \E d \in ConcDocs : Convert(k, d)
        \/ ParseBlocksEnd(k)
        \/ \E dec \in DecoderBehaviours : OpenBlocks(k, dec)
        \/ OtherBlocks(k)
        \/ \E dec \in DecoderBehaviours : ContinueBlock(k, dec)
        \/ \E dec \in DecoderBehaviours : CloseAtEnd(k, dec)
        \/ Transform(k)

InitConc ==
    /\ Machine
    /\ StoresInDocument = FALSE
    /\ probe = NoProbe

SpecConc == InitConc /\ [][NextConc]_vars

(***************************************************************************)
(* SpecTokens: the token matcher on its own.  Init draws a line of up to   *)
(* MaxLineLen bytes and a close signal; one action applies isClose and     *)
(* Continue to a block that is accumulating with that signal remembered,   *)
(* the other applies isOpen to the line.                                   *)
(***************************************************************************)
MaxLineLen == 5

CloseSignals == {formatYaml, formatToml, formatJsonClose}

ProbeBytes(signal) == {signal, "-", ">", " ", "<", "!"}

ProbeLines(signal) == UNION {[1..n -> ProbeBytes(signal)] : n \in 0..MaxLineLen}

InitTokens ==
    /\ Machine
    /\ StoresInDocument = FALSE
    /\ \E signal \in CloseSignals : \E line \in ProbeLines(signal) :
          probe = [NoProbe EXCEPT !.line = line, !.signal = signal]

\* Continue on the line, as the only line of a source, for a new placeholder.
ProbeContinue(line, signal) ==
    Continue([rd |-> NewReader(line), format |-> signal,
              nodes |-> [id \in NodeIds |-> NewTextBlock], entry |-> NoEntry,
              calls |-> <<>>, seen |-> {}], line, 1)

ApplyClose ==
    /\ ~probe.applied
    /\ probe' = [probe EXCEPT !.applied = TRUE,
                              !.n = isClose(probe.line, probe.signal),
                              !.reads = isCloseReads(probe.line, probe.signal),
                              !.state = ProbeContinue(probe.line, probe.signal).state]
    /\ UNCHANGED <<format, StoresInDocument, src, rd, pc, blk, nodes, ctx, docMeta, calls, seen, uses>>

ApplyOpen ==
    /\ ~probe.opened
    /\ probe' = [probe EXCEPT !.opened = TRUE,
                              !.open = isOpen(probe.line),
                              !.openReads = isOpenReads(probe.line)]
    /\ UNCHANGED <<format, StoresInDocument, src, rd, pc, blk, nodes, ctx, docMeta, calls, seen, uses>>

NextTokens == ApplyClose \/ ApplyOpen

SpecTokens == InitTokens /\ [][NextTokens]_vars

(***************************************************************************)
(* Properties.                                                             *)
(***************************************************************************)
StartsWith(s, prefix) == Len(s) >= Len(prefix) /\ SubSeq(s, 1, Len(prefix)) = prefix

Contains(s, part) ==
    \E i \in 0..(Len(s) - Len(part)) : SubSeq(s, i + 1, i + Len(part)) = part

FirstLine(s) == PeekLine(s, NewReader(s))

LastCall(k) == calls[k][Len(calls[k])]

\* The step of slot k that is Transform.
TransformStep(k) == pc[k] = "parsed" /\ pc'[k] = "done"

\* C1: once Close has run in a conversion, the context holds what the decoder
\* returned, for the conversion's placeholder, and exactly one of two outcomes
\* is recorded: no error and the placeholder removed from the tree, or an error
\* and the placeholder still in the tree, its lines being the raw block text.
C1_CloseRecordsOneOutcome ==
    \A k \in Slots :
        calls[k] # <<>> =>
            /\ ctx[k].present
            /\ ctx[k].Node = blk[k]
            /\ ctx[k].Map = LastCall(k).out.Map
            /\ ctx[k].Error = LastCall(k).out.Error
            /\ IF LastCall(k).out.Error = Nil
               THEN nodes[blk[k]].Parent = "none"
               ELSE /\ nodes[blk[k]].Parent = "doc"
                    /\ Concat(src[k], nodes[blk[k]].Lines) = LastCall(k).buf

\* A JSON block whose decoding failed: the error is stored, the placeholder stays.
C1_Witness ==
    /\ calls[1] # <<>>
    /\ LastCall(1).data = "JSON"
    /\ ctx[1].Error = "decode error"
    /\ nodes[blk[1]].Parent = "doc"
    /\ LastCall(1).buf = <<"{", "a", "}">>

\* C2: TryGet returns (absent, nil) without an entry, (absent, error) for an
\* entry with an error and (mapping, nil) otherwise, and never a mapping
\* together with an error.
C2_TryGetContract ==
    \A k \in Slots :
        /\ ~ctx[k].present => TryGet(ctx[k]) = [map |-> NilMap, err |-> Nil]
        /\ ctx[k].present /\ ctx[k].Error # Nil =>
               TryGet(ctx[k]) = [map |-> NilMap, err |-> ctx[k].Error]
        /\ ctx[k].present /\ ctx[k].Error = Nil =>
               TryGet(ctx[k]) = [map |-> ctx[k].Map, err |-> Nil]
        /\ ~(TryGet(ctx[k]).map # NilMap /\ TryGet(ctx[k]).err # Nil)

\* An entry that holds an error and a mapping the decoder had begun.
C2_Witness == ctx[1].present /\ ctx[1].Error # Nil /\ ctx[1].Map # NilMap /\ pc[1] = "done"

\* C3: for every entry that holds an error, Get returns no mapping.
C3_GetAbsentOnError ==
    \A k \in Slots : ctx[k].present /\ ctx[k].Error # Nil => Get(ctx[k]) = NilMap

\* C4: on a line whose index is not 0, Open returns no node and leaves the
\* reader, the format byte, the context and the nodes as they are, whatever the
\* line holds and whatever the decoder would do: both where the host offers a
\* line with no metadata block open and where it offers the rest of the line
\* on which Continue closed the block.
C4_OpenOnlyOnLineZero ==
    \A k \in Slots : \A dec \in DecoderBehaviours :
        /\ pc[k] = "blocks" =>
              LET w == [World(k) EXCEPT !.rd = SkipBlankLines(src[k], rd[k])]
              IN  Position(w.rd) # 0 => Open(w, src[k], NewId, dec) = [node |-> 0, w |-> w]
        /\ pc[k] = "accum" /\ PeekLine(src[k], rd[k]) # <<>> =>
              LET w == Continue(World(k), src[k], blk[k]).w
              IN  Position(w.rd) # 0 => Open(w, src[k], NewId, dec) = [node |-> 0, w |-> w]

\* A later line that holds a complete block is offered to Open.
C4_Witness ==
    /\ pc[1] = "blocks"
    /\ Position(SkipBlankLines(src[1], rd[1])) = 1
    /\ PeekLine(src[1], SkipBlankLines(src[1], rd[1]))
           = openToken \o <<"{", "a", "}">> \o closeToken \o NL

\* The table of signals (README, Signal Characters).
SignalTable(s) ==
    CASE s = ":" -> "YAML"
      [] s = "#" -> "TOML"
      [] s = "{" -> "JSON"

OwnSignal(s) ==
    IF Len(s) <= Len(openToken) THEN ZeroByte
    ELSE IF s[Len(openToken) + 1] = formatJsonOpen THEN formatJsonClose
    ELSE s[Len(openToken) + 1]

\* C6: in every interleaving of two conversions with contexts of their own,
\* each conversion's Continue and Close read the format byte of its own
\* document, and each decoder call is for its own document's format.
C6_NoInterference ==
    \A k \in Slots :
        /\ seen[k] \subseteq {OwnSignal(src[k])}
        /\ \A i \in 1..Len(calls[k]) : calls[k][i].data = DataFormat(OwnSignal(src[k]))

\* C7: when a block was opened on line 0 and no line of the document holds the
\* close token, then after parsing no entry exists, the decoder was not called
\* and Get returns no mapping.
C7_UnterminatedLeavesNoEntry ==
    \A k \in Slots :
        /\ pc[k] \in {"parsed", "done"}
        /\ Offered(FirstLine(src[k])) /\ isOpen(FirstLine(src[k]))
        /\ ~Contains(src[k], closeToken)
        => /\ ~ctx[k].present
           /\ calls[k] = <<>>
           /\ Get(ctx[k]) = NilMap

\* C8: Transform writes to the document's metadata exactly when the context
\* holds an entry with no error and the option is on: then every pair of the
\* mapping is in the metadata afterwards and every other key is kept with its
\* value; otherwise the metadata is unchanged.
C8_TransformMetaFrame ==
    [][\A k \in Slots :
          TransformStep(k) =>
              IF ctx[k].present /\ ctx[k].Error = Nil /\ StoresInDocument
              THEN /\ DOMAIN docMeta'[k] = DOMAIN docMeta[k] \cup DOMAIN ctx[k].Map.kv
                   /\ \A key \in DOMAIN ctx[k].Map.kv : docMeta'[k][key] = ctx[k].Map.kv[key]
                   /\ \A key \in DOMAIN docMeta[k] \ DOMAIN ctx[k].Map.kv :
                          docMeta'[k][key] = docMeta[k][key]
              ELSE docMeta'[k] = docMeta[k]]_vars

\* The mapping was added to metadata another stage had put there.
C8_Witness ==
    /\ pc[1] = "done"
    /\ StoresInDocument
    /\ ctx[1].present /\ ctx[1].Error = Nil
    /\ docMeta[1] = [key \in {"Title", "Tags", "Draft"} |->
                        IF key = "Draft" THEN "yes" ELSE FullKV[key]]

C10_CloseFoundIffPresent ==
    probe.applied /\ ~IsBlank(probe.line) =>
        /\ probe.n # -1 <=> Contains(probe.line, <<probe.signal>> \o closeToken)
        /\ Contains(probe.line, <<probe.signal>> \o closeToken) => probe.state = "Close"

\* The signals that may follow the opening marker.
OpenSignals == {formatYaml, formatToml, formatJsonOpen}

\* C11: isOpen is true if and only if the trimmed line holds <!-- immediately
\* followed by ':', '#' or '{'.
C11_OpenIffMarker ==
    probe.opened =>
        (probe.open <=>
            \E s \in OpenSignals :
                Contains(TrimRightSpace(TrimLeftSpace(probe.line)), openToken \o <<s>>))

\* C12: while a block that Open started is accumulating, the remembered format
\* byte is ':', '#' or '}', and no close of the conversion ends with the
\* unsupported-format error.
C12_FormatIsSignal ==
    \A k \in Slots :
        /\ pc[k] = "accum" => format \in CloseSignals
        /\ \A i \in 1..Len(calls[k]) :
               /\ calls[k][i].format \in CloseSignals
               /\ calls[k][i].data # "unsupported"
               /\ calls[k][i].out.Error # "ErrUnsupportedData"

\* The step of slot k in which Continue found the close marker and the block
\* was closed: a decoder call is added, and not by the close at the end of input.
MarkerCloseStep(k) ==
    /\ Len(calls'[k]) = Len(calls[k]) + 1
    /\ ~(pc[k] = "accum" /\ PeekLine(src[k], rd[k]) = <<>>)

\* The buffer of the decoder call the step added.
NewBuf(k) == calls'[k][Len(calls'[k])].buf

\* The byte that closes a block opened with signal s.
CloseOf(s) == IF s = formatJsonOpen THEN formatJsonClose ELSE s

FoundSignal(n, signal) == IF signal = formatJsonClose THEN n - 1 ELSE n

\* C14: when Continue finds the close marker on a line, it returns Close, has
\* appended the part of the line before the marker (for the brace format the
\* closing brace goes with it), and leaves the reader at the end of -->, the
\* same distance from it for ':', '#' and '}'.
C14_CloseConsumption ==
    probe.applied /\ probe.n # -1 /\ ~IsBlank(probe.line) =>
        LET c == ProbeContinue(probe.line, probe.signal)
            sig == FoundSignal(probe.n, probe.signal)
        IN  /\ probe.state = "Close"
            /\ Concat(probe.line, c.w.nodes[1].Lines) = SubSeq(probe.line, 1, probe.n)
            /\ SubSeq(probe.line, sig + 1, sig + 1 + Len(closeToken)) = <<probe.signal>> \o closeToken
            /\ c.w.rd.Start = sig + 1 + Len(closeToken)

\* The block state of a conversion: Closed once Close has run, Accumulating
\* while the placeholder is an open block of the host, Scanning before.
BlockState(k) ==
    IF calls[k] # <<>> THEN "Closed"
    ELSE IF pc[k] = "accum" THEN "Accumulating"
    ELSE "Scanning"

\* The nodes that are allocated.
Allocated(ns) == {id \in NodeIds : ns[id].Parent # "free"}

\* C15: within a conversion the block state only moves forward: from
\* Accumulating to Accumulating or Closed with no other block started, and
\* from Closed nowhere: no block is open again, no block is started and no
\* line is appended to the closed block's buffer.
C15_ForwardOnly ==
    [][\A k \in Slots :
          pc[k] # "done" /\ pc[k] # "idle" =>
              /\ BlockState(k) = "Accumulating" =>
                     /\ BlockState(k)' \in {"Accumulating", "Closed"}
                     /\ blk'[k] = blk[k]
                     /\ Allocated(nodes') = Allocated(nodes)
              /\ BlockState(k) = "Closed" =>
                     /\ BlockState(k)' = "Closed"
                     /\ pc'[k] # "accum"
                     /\ blk'[k] = blk[k]
                     /\ Allocated(nodes') = Allocated(nodes)
                     /\ nodes'[blk[k]].Lines = nodes[blk[k]].Lines]_vars

\* After a block closed on line 0, the opening marker on the next line was
\* passed over and the conversion ended.
C15_Witness ==
    /\ pc[1] = "done"
    /\ BlockState(1) = "Closed"
    /\ src[1] = Join(<<openToken \o <<"{", "a", "}">> \o closeToken,
                       openToken \o <<":">>, <<":">> \o closeToken>>)

\* C16: within a conversion Close runs at most once, the context holds an
\* entry exactly when it has run, a block that closed on its opening line is
\* not an open block of the host, and a document with no block on line 0
\* leaves the context without an entry.
C16_EntryWrittenOnce ==
    \A k \in Slots :
        /\ Len(calls[k]) <= 1
        /\ ctx[k].present <=> calls[k] # <<>>
        /\ calls[k] # <<>> => pc[k] # "accum"
        /\ ~(Offered(FirstLine(src[k])) /\ isOpen(FirstLine(src[k]))) => ~ctx[k].present

\* A block that closed on its opening line, at the end of its conversion.
C16_Witness ==
    /\ pc[1] = "done"
    /\ Len(calls[1]) = 1
    /\ ctx[1].present
    /\ FirstLine(src[1]) = openToken \o <<"#", "a", "#">> \o closeToken \o <<"b">> \o NL

\* C17: on a whitespace-only line Continue returns Continue and appends the
\* whole line, whichever signal is remembered.
C17_BlankLineContinues ==
    probe.applied /\ probe.line # <<>> /\ IsBlank(probe.line) =>
        LET c == ProbeContinue(probe.line, probe.signal)
        IN  /\ probe.state = "Continue"
            /\ c.state = "Continue"
            /\ c.w.nodes[1].Lines = <<[Start |-> 0, Stop |-> Len(probe.line)]>>
            /\ c.w.rd.Start = 0

\* Continue was applied to a line of two spaces with the hash signal remembered.
C17_Witness ==
    /\ probe.applied
    /\ probe.line = SP \o SP
    /\ probe.signal = formatToml
    /\ probe.state = "Continue"

\* Line 0 of the source is offered to Open and holds an opening.
OpensOnLineZero(s) == Offered(FirstLine(s)) /\ isOpen(FirstLine(s))

\* C18: at the end of every conversion of a sequence that uses one context:
\* after a document with no block on line 0, Get returns no mapping, TryGet
\* returns no mapping and no error, no node carries more than the marker of
\* its own conversion and the document's metadata holds nothing of a block;
\* after a document with a block, the entry is the one this conversion's
\* Close stored.
C18_NoStaleEntry ==
    \A k \in Slots :
        pc[k] = "done" =>
            IF OpensOnLineZero(src[k])
            THEN /\ calls[k] # <<>>
                 /\ ctx[k].present
                 /\ ctx[k].Node = blk[k]
                 /\ ctx[k].Map = LastCall(k).out.Map
                 /\ ctx[k].Error = LastCall(k).out.Error
            ELSE /\ Get(ctx[k]) = NilMap
                 /\ TryGet(ctx[k]) = [map |-> NilMap, err |-> Nil]
                 /\ \A id \in NodeIds : Len(nodes[id].Children) <= 1
                 /\ docMeta[k] \in {EmptyKV, OtherKV}

\* C19: on every line isOpen and isClose read only indexes inside the line
\* they scan, and isClose returns -1 or an index n with 0 <= n <= len(line) - 3.
C19_ReadsInRange ==
    /\ probe.applied =>
           /\ probe.reads \subseteq 0..(Len(probe.line) - 1)
           /\ probe.n = -1 \/ (0 <= probe.n /\ probe.n <= Len(probe.line) - Len(closeToken))
    /\ probe.opened =>
           probe.openReads \subseteq 0..(Len(TrimRightSpace(TrimLeftSpace(probe.line))) - 1)

\* Both matchers were applied to a line with '<' four bytes from its end and
\* the signal as its last byte.
C19_Witness ==
    /\ probe.applied /\ probe.opened
    /\ probe.line = <<"<", "-", "-", ":">>
    /\ probe.signal = formatYaml
    /\ probe.n = -1
    /\ ~probe.open

=============================================================================
